---------------------------- MODULE Spec2Model ----------------------------
(***************************************************************************)
(* Model of src/apps/flask_app.py: the timeline-to-ffmpeg compiler         *)
(* combine_videos_with_ffmpeg, its probe helper get_video_dimensions, the  *)
(* staging helper download_files_from_gcs and the HTTP handler             *)
(* combine_videos that drives them.                                        *)
(*                                                                         *)
(* Paths are sequences of components (<<"a", "x.mp4">> is a/x.mp4, <<>> is *)
(* the empty string); Python's None is the empty option <<>> and a present *)
(* value x is <<x>>.  The filesystem is a function from paths to sizes.    *)
(***************************************************************************)
EXTENDS Integers, Sequences, FiniteSets, TLC

VARIABLES
    pc,                     \* position inside combine_videos_with_ffmpeg
    vclip_timeline,         \* argument: the clips
    downloaded_videos,      \* argument: staged local video paths
    downloaded_audio_file,  \* argument: staged local audio path or None
    temp_dir,               \* argument: the working directory
    output_filename,        \* line 137
    output_path,            \* line 138
    ffmpeg_cmd,             \* the argument list built for the engine
    clip_i,                 \* index of the first-pass loop (line 154)
    unique_videos,          \* insertion-ordered dict, as a sequence of entries
    max_width,
    max_height,
    video_input_map,        \* filename -> input index
    video_filter_parts,     \* one filter chain per clip
    total_duration,
    probed,                 \* the ffprobe runs, in order: path and outcome
    engine_runs,            \* the argument lists ffmpeg was run with, in order
    proc,                   \* what the engine returned (returncode, stderr)
    fs,                     \* filesystem: path -> size
    video_result,           \* the dict returned by combine_videos_with_ffmpeg
    raised,                 \* the exception that left combine_videos_with_ffmpeg
    hpc,                    \* position inside the handler combine_videos
    request,                \* the HTTP request
    file_paths_list,        \* line 376
    response,               \* the (status code, body) the handler returned
    reqs,                   \* concurrent requests: each one's handler state
    now,                    \* the wall clock, in seconds
    written                 \* path -> the requests that wrote it

corevars == <<pc, vclip_timeline, downloaded_videos, downloaded_audio_file,
              temp_dir, output_filename, output_path, ffmpeg_cmd, clip_i,
              unique_videos, max_width, max_height, video_input_map,
              video_filter_parts, total_duration, probed, engine_runs, proc,
              video_result, raised>>

handlervars == <<hpc, request, file_paths_list, response>>

concvars == <<reqs, now, written>>

vars == <<corevars, fs, handlervars, concvars>>

-----------------------------------------------------------------------------
(* Bounds of the model *)

\* longest timeline explored
MaxClips == 3

-----------------------------------------------------------------------------
(* Values *)

None == <<>>
Some(x) == <<x>>

\* the sourceRefs a clip may carry: two of them share a file name
GcsPaths == { <<"a", "x.mp4">>, <<"b", "x.mp4">>, <<"a", "y.mp4">> }

AudioPaths == { <<"audio", "track.mp3">> }

\* (start_time, duration) of a clip
ClipTimings == { <<0, 3>>, <<2, 2>> }

Widths == {640, 1280}
Heights == {480, 720}

\* tempfile.mkdtemp(prefix='media_processing_')
WorkDir == <<"tmp", "media_processing_1">>

\* datetime.now().strftime('%Y%m%d_%H%M%S') inside the output file name
OutputNames == { "combined_video_20260101_000000.mp4" }

\* os.path.basename
basename(path) == IF Len(path) = 0 THEN "" ELSE path[Len(path)]

\* os.path.join(dir, name)
join(dir, name) == Append(dir, name)

Clip(p, t) == [has_gcs_path |-> TRUE, gcs_path |-> p,
               start_time |-> t[1], duration |-> t[2]]

ValidClips == { Clip(p, t) : p \in GcsPaths, t \in ClipTimings }

Timelines(clips) == UNION { [1..n -> clips] : n \in 0..MaxClips }

\* a plausible slip: the latest value overwrites the running maximum
Max_overwrite(a, b) == b

Max(a, b) == IF a >= b THEN a ELSE b

NoError == [type |-> "", text |-> "", name |-> "", path |-> <<>>]

NoProc == [returncode |-> 0, stderr |-> "", ran |-> FALSE]

NoFiles == [p \in {} |-> 0]

NoWriters == [p \in {} |-> {}]

\* the filesystem after `path` is written with `size` bytes
WriteFile(files, path, size) ==
    [p \in DOMAIN files \cup {path} |-> IF p = path THEN size ELSE files[p]]

-----------------------------------------------------------------------------
(* get_video_dimensions, lines 91-121 *)

\* what running ffprobe can produce: an exception, a nonzero exit, no stream,
\* a stream with a missing or zero dimension, a stream with both dimensions
ProbeOutcomes ==
    { [exc |-> TRUE, returncode |-> 0, nstreams |-> 0,
       has_width |-> FALSE, width |-> 0, has_height |-> FALSE, height |-> 0],
      [exc |-> FALSE, returncode |-> 1, nstreams |-> 0,
       has_width |-> FALSE, width |-> 0, has_height |-> FALSE, height |-> 0],
      [exc |-> FALSE, returncode |-> 0, nstreams |-> 0,
       has_width |-> FALSE, width |-> 0, has_height |-> FALSE, height |-> 0],
      [exc |-> FALSE, returncode |-> 0, nstreams |-> 1,
       has_width |-> FALSE, width |-> 0, has_height |-> TRUE, height |-> 480],
      [exc |-> FALSE, returncode |-> 0, nstreams |-> 1,
       has_width |-> TRUE, width |-> 640, has_height |-> FALSE, height |-> 0],
      [exc |-> FALSE, returncode |-> 0, nstreams |-> 1,
       has_width |-> TRUE, width |-> 0, has_height |-> TRUE, height |-> 480] }
    \cup
    { [exc |-> FALSE, returncode |-> 0, nstreams |-> 1,
       has_width |-> TRUE, width |-> w, has_height |-> TRUE, height |-> h]
      : w \in Widths, h \in Heights }

get_video_dimensions(out) ==
    IF out.exc THEN <<0, 0>>
    ELSE IF out.returncode = 0 /\ out.nstreams > 0
         THEN << IF out.has_width THEN out.width ELSE 0,
                 IF out.has_height THEN out.height ELSE 0 >>
         ELSE <<0, 0>>

-----------------------------------------------------------------------------
(* combine_videos_with_ffmpeg, lines 124-297 *)

Lit(s) == [kind |-> "lit", val |-> s]
PathArg(p) == [kind |-> "path", val |-> p]
FilterArg(g) == [kind |-> "filter", val |-> g]
LabelArg(l) == [kind |-> "label", val |-> l]
StreamArg(i) == [kind |-> "stream", val |-> i]
NumArg(n) == [kind |-> "num", val |-> n]

\* lines 141-147
GlobalOptions == << Lit("ffmpeg"), Lit("-y"), Lit("-hide_banner"),
                    Lit("-loglevel"), Lit("error"),
                    Lit("-hwaccel"), Lit("auto") >>

\* lines 137-152: the output name, the global options, the empty accumulators
Begin ==
    /\ pc = "begin"
    /\ \E name \in OutputNames :
          /\ output_filename' = name
          /\ output_path' = join(temp_dir, name)
    /\ ffmpeg_cmd' = GlobalOptions
    /\ unique_videos' = <<>>
    /\ max_width' = 0
    /\ max_height' = 0
    /\ clip_i' = 1
    /\ pc' = "first_pass"
    /\ UNCHANGED <<vclip_timeline, downloaded_videos, downloaded_audio_file,
                   temp_dir, video_input_map, video_filter_parts,
                   total_duration, probed, engine_runs, proc, video_result,
                   raised, fs, handlervars,
                   concvars>>

\* a plausible slip: fall back to the first staged file when none matches
Resolve_fallback(clip_filename, videos) ==
    LET hits == { k \in 1..Len(videos) : basename(videos[k]) = clip_filename }
    IN  IF hits = {} THEN Some(videos[1])
        ELSE Some(videos[CHOOSE k \in hits : \A j \in hits : k <= j])

\* lines 156-161: the first downloaded path with the clip's file name, or None
Resolve(clip_filename, videos) ==
    LET hits == { k \in 1..Len(videos) : basename(videos[k]) = clip_filename }
    IN  IF hits = {} THEN None
        ELSE Some(videos[CHOOSE k \in hits : \A j \in hits : k <= j])

\* the file names that are keys of unique_videos
UniqueNames(uv) == { uv[k].filename : k \in 1..Len(uv) }

\* unique_videos[filename]
Lookup(uv, filename) ==
    uv[CHOOSE k \in 1..Len(uv) : uv[k].filename = filename]


\* the exception of line 164
ResolutionError(clip) ==
    [type |-> "Exception",
     text |-> "No downloaded video file found for timeline clip",
     name |-> basename(clip.gcs_path), path |-> clip.gcs_path]

\* the exception of line 178
ProbeError(local_path) ==
    [type |-> "Exception",
     text |-> "Could not determine dimensions for video",
     name |-> "", path |-> local_path]

\* lines 172-176: the entry stored for a newly probed file
VideoInfo(filename, local_path, width, height) ==
    [filename |-> filename, path |-> local_path, width |-> width,
     height |-> height, needs_scaling |-> FALSE]

\* a plausible slip: 'or' for 'and'
DimensionsKnown_either(width, height) == width > 0 \/ height > 0

\* line 169: the dimensions are usable
DimensionsKnown(width, height) == width > 0 /\ height > 0

\* lines 154-178, one iteration of the first pass: resolve the clip, and probe
\* its file when the file name is new
FirstPass ==
    /\ pc = "first_pass"
    /\ clip_i <= Len(vclip_timeline)
    /\ LET clip == vclip_timeline[clip_i]
           clip_filename == basename(clip.gcs_path)
           local_path == Resolve(clip_filename, downloaded_videos)
       IN  IF local_path = None
           THEN /\ raised' = ResolutionError(clip)
                /\ pc' = "raised"
                /\ UNCHANGED <<clip_i, unique_videos, max_width, max_height,
                               probed>>
           ELSE IF clip_filename \in UniqueNames(unique_videos)
           THEN /\ clip_i' = clip_i + 1
                /\ UNCHANGED <<pc, raised, unique_videos, max_width,
                               max_height, probed>>
           ELSE \E out \in ProbeOutcomes :
                LET dims == get_video_dimensions(out)
                IN  /\ probed' = Append(probed, [path |-> local_path[1],
                                               out |-> out])
                    /\ IF DimensionsKnown(dims[1], dims[2])
                       THEN /\ max_width' = Max(max_width, dims[1])
                            /\ max_height' = Max(max_height, dims[2])
                            /\ unique_videos' =
                                  Append(unique_videos,
                                         VideoInfo(clip_filename, local_path[1],
                                                   dims[1], dims[2]))
                            /\ clip_i' = clip_i + 1
                            /\ UNCHANGED <<pc, raised>>
                       ELSE /\ raised' = ProbeError(local_path[1])
                            /\ pc' = "raised"
                            /\ UNCHANGED <<clip_i, unique_videos, max_width,
                                           max_height>>
    /\ UNCHANGED <<vclip_timeline, downloaded_videos, downloaded_audio_file,
                   temp_dir, output_filename, output_path, ffmpeg_cmd,
                   video_input_map, video_filter_parts, total_duration,
                   engine_runs, proc, video_result, fs, handlervars,
                   concvars>>

\* a plausible slip: 'and' for 'or'
NeedsScaling_both(video_info, mw, mh) ==
    video_info.width < mw /\ video_info.height < mh

\* line 182
NeedsScaling(video_info, mw, mh) ==
    video_info.width < mw \/ video_info.height < mh

\* lines 180-184: mark every unique video
MarkScaling ==
    /\ pc = "first_pass"
    /\ clip_i > Len(vclip_timeline)
    /\ unique_videos' =
          [k \in 1..Len(unique_videos) |->
              [unique_videos[k] EXCEPT
                  !.needs_scaling =
                      NeedsScaling(unique_videos[k], max_width, max_height)]]
    /\ pc' = "inputs"
    /\ UNCHANGED <<vclip_timeline, downloaded_videos, downloaded_audio_file,
                   temp_dir, output_filename, output_path, ffmpeg_cmd, clip_i,
                   max_width, max_height, video_input_map, video_filter_parts,
                   total_duration, probed, engine_runs, proc, video_result,
                   raised, fs, handlervars,
                   concvars>>

\* lines 194-195: '-i', path for every unique video, in insertion order
RECURSIVE InputArgs(_)
InputArgs(uv) ==
    IF uv = <<>> THEN <<>>
    ELSE <<Lit("-i"), PathArg(Head(uv).path)>> \o InputArgs(Tail(uv))

\* a plausible slip: input_index counted from 1
InputIndex_one_based(uv) ==
    [f \in UniqueNames(uv) |->
        CHOOSE k \in 1..Len(uv) : uv[k].filename = f]

\* lines 190-197: input_index counts from 0 in insertion order
InputIndex(uv) ==
    [f \in UniqueNames(uv) |->
        (CHOOSE k \in 1..Len(uv) : uv[k].filename = f) - 1]

\* lines 189-197
AddInputs ==
    /\ pc = "inputs"
    /\ ffmpeg_cmd' = ffmpeg_cmd \o InputArgs(unique_videos)
    /\ video_input_map' = InputIndex(unique_videos)
    /\ pc' = "filters"
    /\ UNCHANGED <<vclip_timeline, downloaded_videos, downloaded_audio_file,
                   temp_dir, output_filename, output_path, clip_i,
                   unique_videos, max_width, max_height, video_filter_parts,
                   total_duration, probed, engine_runs, proc, video_result,
                   raised, fs, handlervars,
                   concvars>>

NoLabel == <<"", 0>>

\* lines 209-215: "[idx:v]trim=duration=D[,scale=W:H...,pad=W:H...],
\* setpts=PTS+S/TB[vK]"
FilterChain(input_idx, clip, video_info, mw, mh, timeline_index) ==
    [op |-> "chain", src |-> <<"in", input_idx>>, over |-> NoLabel,
     trim |-> clip.duration,
     scale |-> video_info.needs_scaling,
     scale_w |-> IF video_info.needs_scaling THEN mw ELSE 0,
     scale_h |-> IF video_info.needs_scaling THEN mh ELSE 0,
     setpts |-> clip.start_time,
     out |-> <<"v", timeline_index>>]

\* lines 203-217: one chain per clip, timeline_index counting from 0
FilterParts(timeline, uv, input_map, mw, mh) ==
    [k \in 1..Len(timeline) |->
        LET clip_filename == basename(timeline[k].gcs_path)
        IN  FilterChain(input_map[clip_filename], timeline[k],
                        Lookup(uv, clip_filename), mw, mh, k - 1)]

\* lines 199-217
BuildFilters ==
    /\ pc = "filters"
    /\ video_filter_parts' =
          FilterParts(vclip_timeline, unique_videos, video_input_map,
                      max_width, max_height)
    /\ pc' = "audio"
    /\ UNCHANGED <<vclip_timeline, downloaded_videos, downloaded_audio_file,
                   temp_dir, output_filename, output_path, ffmpeg_cmd, clip_i,
                   unique_videos, max_width, max_height, video_input_map,
                   total_duration, probed, engine_runs, proc, video_result,
                   raised, fs, handlervars,
                   concvars>>

\* a plausible slip: the sum of the durations, as line 427 computes
RECURSIVE TotalDuration_sum(_)
TotalDuration_sum(timeline) ==
    IF Len(timeline) = 1 THEN Head(timeline).duration
    ELSE Head(timeline).duration + TotalDuration_sum(Tail(timeline))

\* line 225: max(start_time + duration) over a non-empty timeline
RECURSIVE TotalDuration(_)
TotalDuration(timeline) ==
    LET first == Head(timeline).start_time + Head(timeline).duration
    IN  IF Len(timeline) = 1 THEN first
        ELSE Max(first, TotalDuration(Tail(timeline)))

\* max() of an empty sequence, line 225
EmptyMaxError ==
    [type |-> "ValueError", text |-> "max() arg is an empty sequence",
     name |-> "", path |-> <<>>]

\* lines 219-225: the audio input, then the total duration
AddAudioInput ==
    /\ pc = "audio"
    /\ ffmpeg_cmd' =
          IF downloaded_audio_file # None
          THEN ffmpeg_cmd \o <<Lit("-i"), PathArg(downloaded_audio_file[1])>>
          ELSE ffmpeg_cmd
    /\ IF vclip_timeline = <<>>
       THEN /\ raised' = EmptyMaxError
            /\ pc' = "raised"
            /\ UNCHANGED total_duration
       ELSE /\ total_duration' = TotalDuration(vclip_timeline)
            /\ pc' = "graph"
            /\ UNCHANGED raised
    /\ UNCHANGED <<vclip_timeline, downloaded_videos, downloaded_audio_file,
                   temp_dir, output_filename, output_path, clip_i,
                   unique_videos, max_width, max_height, video_input_map,
                   video_filter_parts, probed, engine_runs, proc,
                   video_result, fs, handlervars,
                   concvars>>


\* a plausible slip: the i == 1 case of line 242 forgotten
Overlay_no_first(i) ==
    [op |-> "overlay", src |-> <<"tmp", i - 1>>, over |-> <<"v", i>>,
     trim |-> 0, scale |-> FALSE, scale_w |-> 0, scale_h |-> 0, setpts |-> 0,
     out |-> <<"tmp", i>>]

\* lines 243 and 245: "[v0][v1]overlay[tmp1]", "[tmp{i-1}][v{i}]overlay[tmp{i}]"
Overlay(i) ==
    [op |-> "overlay",
     src |-> IF i = 1 THEN <<"v", 0>> ELSE <<"tmp", i - 1>>,
     over |-> <<"v", i>>,
     trim |-> 0, scale |-> FALSE, scale_w |-> 0, scale_h |-> 0, setpts |-> 0,
     out |-> <<"tmp", i>>]

\* lines 240-245: for i in range(1, valid_video_count)
OverlayParts(valid_video_count) ==
    [i \in 1..(valid_video_count - 1) |-> Overlay(i)]

\* lines 232 and 237-247: the filter graph, its nodes in textual order
FilterComplex(parts) ==
    IF Len(parts) = 1 THEN <<parts[1]>>
    ELSE parts \o OverlayParts(Len(parts))

\* lines 234 and 248-251: the label mapped as the output video
FinalVideoLabel(valid_video_count) ==
    IF valid_video_count = 1 THEN <<"v", 0>>
    ELSE <<"tmp", valid_video_count - 1>>

\* lines 254-255
AudioMapping(audio_file, audio_input_index, duration) ==
    IF audio_file # None
    THEN <<Lit("-map"), StreamArg(audio_input_index), Lit("-t"),
           NumArg(duration)>>
    ELSE <<>>

\* lines 258-267
OutputSettings(path) ==
    << Lit("-c:v"), Lit("libx264"), Lit("-preset"), Lit("ultrafast"),
       Lit("-crf"), Lit("23"), Lit("-threads"), Lit("0"),
       Lit("-c:a"), Lit("aac"), Lit("-b:a"), Lit("128k"),
       Lit("-shortest"), PathArg(path) >>

\* the exception of line 229
NoClipsError ==
    [type |-> "Exception", text |-> "No valid video clips found",
     name |-> "", path |-> <<>>]

\* lines 227-267: the filter graph, the mappings, the output settings
BuildFilterComplex ==
    /\ pc = "graph"
    /\ LET valid_video_count == Len(vclip_timeline)
           audio_input_index == Len(unique_videos)
       IN  IF valid_video_count = 0
           THEN /\ raised' = NoClipsError
                /\ pc' = "raised"
                /\ UNCHANGED ffmpeg_cmd
           ELSE /\ ffmpeg_cmd' =
                      ffmpeg_cmd
                      \o <<Lit("-filter_complex"),
                           FilterArg(FilterComplex(video_filter_parts))>>
                      \o <<Lit("-map"),
                           LabelArg(FinalVideoLabel(valid_video_count))>>
                      \o AudioMapping(downloaded_audio_file, audio_input_index,
                                      total_duration)
                      \o OutputSettings(output_path)
                /\ pc' = "execute"
                /\ UNCHANGED raised
    /\ UNCHANGED <<vclip_timeline, downloaded_videos, downloaded_audio_file,
                   temp_dir, output_filename, output_path, clip_i,
                   unique_videos, max_width, max_height, video_input_map,
                   video_filter_parts, total_duration, probed, engine_runs,
                   proc, video_result, fs, handlervars,
                   concvars>>

\* what running ffmpeg can produce: exit status, stderr, and whether (and how
\* large) a file was left at the output path
EngineOutcomes ==
    { [returncode |-> 0, stderr |-> "", wrote |-> TRUE, size |-> 2048],
      [returncode |-> 0, stderr |-> "", wrote |-> FALSE, size |-> 0],
      [returncode |-> 1, stderr |-> "Invalid data found", wrote |-> FALSE,
       size |-> 0],
      [returncode |-> 1, stderr |-> "Conversion failed!", wrote |-> TRUE,
       size |-> 512] }

\* line 280
VideoCreated(returncode) == returncode = 0

\* a plausible slip: the size is read whatever the exit status
OutputFileSize_any(returncode, files, path) ==
    IF path \in DOMAIN files THEN files[path] ELSE 0

\* lines 283 and 287
OutputFileSize(returncode, files, path) ==
    IF returncode = 0
    THEN IF path \in DOMAIN files THEN files[path] ELSE 0
    ELSE 0

\* lines 289-297 (execution_time, a wall-clock reading, is left out)
MakeResult(video_created, filename, path, size, duration, stderr) ==
    [success |-> video_created,
     output_file |-> IF video_created THEN Some(filename) ELSE None,
     output_path |-> IF video_created THEN Some(path) ELSE None,
     output_size |-> size,
     total_duration |-> duration,
     ffmpeg_error |-> IF ~video_created THEN Some(stderr) ELSE None]

NoResult == [success |-> FALSE, output_file |-> None, output_path |-> None,
             output_size |-> 0, total_duration |-> 0, ffmpeg_error |-> None]

\* a plausible slip: a failed run is tried once more
RunFfmpeg_retry ==
    /\ pc = "execute"
    /\ \E out \in EngineOutcomes :
          LET files == IF out.wrote
                       THEN WriteFile(fs, output_path, out.size)
                       ELSE fs
          IN  /\ engine_runs' = Append(engine_runs, ffmpeg_cmd)
              /\ proc' = [returncode |-> out.returncode,
                          stderr |-> out.stderr, ran |-> TRUE]
              /\ fs' = files
              /\ video_result' =
                    MakeResult(VideoCreated(out.returncode), output_filename,
                               output_path,
                               OutputFileSize(out.returncode, files,
                                              output_path),
                               total_duration, out.stderr)
              /\ pc' = IF out.returncode # 0 /\ engine_runs = <<>>
                       THEN "execute" ELSE "returned"
    /\ UNCHANGED <<vclip_timeline, downloaded_videos, downloaded_audio_file,
                   temp_dir, output_filename, output_path, ffmpeg_cmd, clip_i,
                   unique_videos, max_width, max_height, video_input_map,
                   video_filter_parts, total_duration, probed, raised,
                   handlervars,
                   concvars>>

\* lines 269-297: run the engine once and build the result from its outcome
RunFfmpeg ==
    /\ pc = "execute"
    /\ \E out \in EngineOutcomes :
          LET files == IF out.wrote
                       THEN WriteFile(fs, output_path, out.size)
                       ELSE fs
          IN  /\ engine_runs' = Append(engine_runs, ffmpeg_cmd)
              /\ proc' = [returncode |-> out.returncode,
                          stderr |-> out.stderr, ran |-> TRUE]
              /\ fs' = files
              /\ video_result' =
                    MakeResult(VideoCreated(out.returncode), output_filename,
                               output_path,
                               OutputFileSize(out.returncode, files,
                                              output_path),
                               total_duration, out.stderr)
    /\ pc' = "returned"
    /\ UNCHANGED <<vclip_timeline, downloaded_videos, downloaded_audio_file,
                   temp_dir, output_filename, output_path, ffmpeg_cmd, clip_i,
                   unique_videos, max_width, max_height, video_input_map,
                   video_filter_parts, total_duration, probed, raised,
                   handlervars,
                   concvars>>

\* the function's local state before line 137 runs
CoreStart ==
    /\ output_filename = ""
    /\ output_path = <<>>
    /\ ffmpeg_cmd = <<>>
    /\ clip_i = 0
    /\ unique_videos = <<>>
    /\ max_width = 0
    /\ max_height = 0
    /\ video_input_map = <<>>
    /\ video_filter_parts = <<>>
    /\ total_duration = 0
    /\ probed = <<>>
    /\ engine_runs = <<>>
    /\ proc = NoProc
    /\ video_result = NoResult
    /\ raised = NoError

\* the staged video lists a direct caller may pass
StagedLists ==
    { << join(WorkDir, "x.mp4"), join(WorkDir, "y.mp4") >>,
      << join(WorkDir, "y.mp4"), join(WorkDir, "x.mp4") >>,
      << join(WorkDir, "x.mp4") >>,
      << join(WorkDir, "y.mp4") >> }

NoRequest == [is_json |-> FALSE, has_timeline |-> FALSE, is_list |-> FALSE,
              vclip_timeline |-> <<>>, demo_track_gcs_path |-> None]

NoResponse == [code |-> 0, message |-> "", tmp_output_path |-> None]

\* combine_videos_with_ffmpeg called on its own, as a unit test would
Init ==
    /\ pc = "begin"
    /\ vclip_timeline \in Timelines(ValidClips)
    /\ downloaded_videos \in StagedLists
    /\ downloaded_audio_file \in
          {None} \cup { Some(join(WorkDir, basename(a))) : a \in AudioPaths }
    /\ temp_dir = WorkDir
    /\ CoreStart
    /\ fs = [p \in {WorkDir}
                   \cup { downloaded_videos[k] : k \in 1..Len(downloaded_videos) }
                   \cup { downloaded_audio_file[k] :
                              k \in 1..Len(downloaded_audio_file) }
             |-> IF p = WorkDir THEN 0 ELSE 1024]
    /\ hpc = "direct"
    /\ request = NoRequest
    /\ file_paths_list = <<>>
    /\ response = NoResponse
    /\ reqs = <<>>
    /\ now = 0
    /\ written = NoWriters

CoreNext ==
    \/ Begin
    \/ FirstPass
    \/ MarkScaling
    \/ AddInputs
    \/ BuildFilters
    \/ AddAudioInput
    \/ BuildFilterComplex
    \/ RunFfmpeg

Next == CoreNext

Spec == Init /\ [][Next]_vars

-----------------------------------------------------------------------------
(* download_files_from_gcs, lines 53-88 *)

\* the size of the blob stored at a GCS path
BlobSize(path) ==
    IF path = <<"a", "x.mp4">> THEN 1001
    ELSE IF path = <<"b", "x.mp4">> THEN 1002
    ELSE IF path = <<"a", "y.mp4">> THEN 1003
    ELSE 900

\* lines 70-86: download the paths in order; the first blob that does not
\* exist raises FileNotFoundError and the files written before it stay
RECURSIVE download_files_from_gcs(_, _, _, _, _)
download_files_from_gcs(blobs, file_paths, local_dir, files, done) ==
    IF file_paths = <<>>
    THEN [ok |-> TRUE, downloaded_files |-> done, files |-> files]
    ELSE LET file_path == Head(file_paths)
             local_file_path == join(local_dir, basename(file_path))
         IN  IF file_path \notin blobs
             THEN [ok |-> FALSE, downloaded_files |-> done, files |-> files]
             ELSE download_files_from_gcs(
                      blobs, Tail(file_paths), local_dir,
                      WriteFile(files, local_file_path, BlobSize(file_path)),
                      Append(done, local_file_path))

-----------------------------------------------------------------------------
(* combine_videos, lines 321-494 *)

IsPrefix(dir, path) ==
    Len(path) >= Len(dir) /\ SubSeq(path, 1, Len(dir)) = dir

\* tempfile.mkdtemp: the directory now exists
mkdtemp(files, dir) == WriteFile(files, dir, 0)

\* shutil.rmtree: the directory and everything under it are gone
rmtree(files, dir) ==
    [p \in { q \in DOMAIN files : ~IsPrefix(dir, q) } |-> files[p]]

\* clip.get('gcs_path', "")
GetGcsPath(clip) == IF clip.has_gcs_path THEN clip.gcs_path ELSE <<>>

\* clips the boundary must reject: no gcs_path key, or an empty one
InvalidClips ==
    { [has_gcs_path |-> FALSE, gcs_path |-> <<>>,
       start_time |-> 0, duration |-> 3],
      [has_gcs_path |-> TRUE, gcs_path |-> <<>>,
       start_time |-> 0, duration |-> 3] }

Requests ==
    { [is_json |-> FALSE, has_timeline |-> FALSE, is_list |-> FALSE,
       vclip_timeline |-> <<>>, demo_track_gcs_path |-> None],
      [is_json |-> TRUE, has_timeline |-> FALSE, is_list |-> FALSE,
       vclip_timeline |-> <<>>, demo_track_gcs_path |-> None],
      [is_json |-> TRUE, has_timeline |-> TRUE, is_list |-> FALSE,
       vclip_timeline |-> <<>>, demo_track_gcs_path |-> None] }
    \cup
    { [is_json |-> TRUE, has_timeline |-> TRUE, is_list |-> TRUE,
       vclip_timeline |-> tl, demo_track_gcs_path |-> a]
      : tl \in Timelines(ValidClips \cup InvalidClips),
        a \in {None} \cup { Some(q) : q \in AudioPaths } }

\* os.environ.get('GCS_BUCKET'), line 383: unset or a name
BucketNames == {None, Some("media-bucket")}

\* the bucket's contents when a download looks: everything, or one video or
\* the audio track missing
Buckets ==
    { GcsPaths \cup AudioPaths,
      (GcsPaths \cup AudioPaths) \ { <<"a", "y.mp4">> },
      GcsPaths }

\* a plausible slip: only a missing key is caught, not an empty value
FirstInvalidClip_missing(timeline) ==
    LET bad == { k \in 1..Len(timeline) : ~timeline[k].has_gcs_path }
    IN  IF bad = {} THEN 0 ELSE CHOOSE k \in bad : \A j \in bad : k <= j

\* the index of the first clip whose gcs_path is missing or empty, or 0
FirstInvalidClip(timeline) ==
    LET bad == { k \in 1..Len(timeline) : GetGcsPath(timeline[k]) = <<>> }
    IN  IF bad = {} THEN 0 ELSE CHOOSE k \in bad : \A j \in bad : k <= j

\* lines 364-373: the set of gcs_path values of the timeline
FilePaths(timeline) == { timeline[k].gcs_path : k \in 1..Len(timeline) }

\* line 376: list(set) yields the elements in an unspecified order
ListsOf(S) ==
    { l \in [1..Cardinality(S) -> S] :
        \A i, j \in 1..Cardinality(S) : i # j => l[i] # l[j] }

Respond(code, message) ==
    [code |-> code, message |-> message, tmp_output_path |-> None]

\* lines 337-361 and 367-372: the rejection the request earns, if any
Rejection(req) ==
    IF ~req.is_json THEN Respond(400, "Request must be JSON")
    ELSE IF ~req.has_timeline THEN Respond(400, "Missing required fields")
    ELSE IF ~req.is_list THEN Respond(400, "vclip_timeline must be a list")
    ELSE IF Len(req.vclip_timeline) = 0
         THEN Respond(400, "vclip_timeline cannot be empty")
    ELSE IF FirstInvalidClip(req.vclip_timeline) # 0
         THEN Respond(400,
                  "Each clip in vclip_timeline must have a gcs_path field")
    ELSE NoResponse

\* lines 335-376: validate the request and collect the unique GCS paths
Validate ==
    /\ hpc = "validate"
    /\ UNCHANGED concvars
    /\ IF Rejection(request) # NoResponse
       THEN /\ response' = Rejection(request)
            /\ hpc' = "done"
            /\ UNCHANGED file_paths_list
       ELSE /\ file_paths_list' \in ListsOf(FilePaths(request.vclip_timeline))
            /\ hpc' = "mkdtemp"
            /\ UNCHANGED response
    /\ UNCHANGED <<corevars, fs, request>>

\* lines 378-388: create the working directory, then look up the bucket name
MakeTempDir ==
    /\ hpc = "mkdtemp"
    /\ UNCHANGED concvars
    /\ fs' = mkdtemp(fs, WorkDir)
    /\ temp_dir' = WorkDir
    /\ \E bucket_name \in BucketNames :
          IF bucket_name = None
          THEN /\ response' =
                     Respond(500, "GCS_BUCKET environment variable not set")
               /\ hpc' = "done"
          ELSE /\ hpc' = "download_videos"
               /\ UNCHANGED response
    /\ UNCHANGED <<pc, vclip_timeline, downloaded_videos,
                   downloaded_audio_file, output_filename, output_path,
                   ffmpeg_cmd, clip_i, unique_videos, max_width, max_height,
                   video_input_map, video_filter_parts, total_duration,
                   probed, engine_runs, proc, video_result, raised,
                   request, file_paths_list>>

\* lines 390-403: stage the video files
DownloadVideos ==
    /\ hpc = "download_videos"
    /\ UNCHANGED concvars
    /\ \E blobs \in Buckets :
       LET got == download_files_from_gcs(blobs, file_paths_list, temp_dir,
                                          fs, <<>>)
       IN  /\ fs' = got.files
           /\ IF got.ok
              THEN /\ downloaded_videos' = got.downloaded_files
                   /\ hpc' = "download_audio"
                   /\ UNCHANGED response
              ELSE /\ response' =
                         Respond(500,
                                 "Failed to download video files from GCS")
                   /\ hpc' = "done"
                   /\ UNCHANGED downloaded_videos
    /\ UNCHANGED <<pc, vclip_timeline, downloaded_audio_file, temp_dir,
                   output_filename, output_path, ffmpeg_cmd, clip_i,
                   unique_videos, max_width, max_height, video_input_map,
                   video_filter_parts, total_duration, probed, engine_runs,
                   proc, video_result, raised, request, file_paths_list>>

\* lines 405-422: stage the audio track when the request names one
DownloadAudio ==
    /\ hpc = "download_audio"
    /\ UNCHANGED concvars
    /\ IF request.demo_track_gcs_path # None
       THEN \E blobs \in Buckets :
            LET got == download_files_from_gcs(
                           blobs, <<request.demo_track_gcs_path[1]>>, temp_dir,
                           fs, <<>>)
            IN  /\ fs' = got.files
                /\ IF got.ok
                   THEN /\ downloaded_audio_file' =
                              Some(got.downloaded_files[1])
                        /\ hpc' = "call"
                        /\ UNCHANGED response
                   ELSE /\ response' =
                              Respond(500,
                                  "Failed to download audio file from GCS")
                        /\ hpc' = "done"
                        /\ UNCHANGED downloaded_audio_file
       ELSE /\ downloaded_audio_file' = None
            /\ hpc' = "call"
            /\ UNCHANGED <<fs, response>>
    /\ UNCHANGED <<pc, vclip_timeline, downloaded_videos, temp_dir,
                   output_filename, output_path, ffmpeg_cmd, clip_i,
                   unique_videos, max_width, max_height, video_input_map,
                   video_filter_parts, total_duration, probed, engine_runs,
                   proc, video_result, raised, request, file_paths_list>>

\* lines 433-440: enter combine_videos_with_ffmpeg
CallCombine ==
    /\ hpc = "call"
    /\ UNCHANGED concvars
    /\ vclip_timeline' = request.vclip_timeline
    /\ pc' = "begin"
    /\ hpc' = "in_core"
    /\ UNCHANGED <<downloaded_videos, downloaded_audio_file, temp_dir,
                   output_filename, output_path, ffmpeg_cmd, clip_i,
                   unique_videos, max_width, max_height, video_input_map,
                   video_filter_parts, total_duration, probed, engine_runs,
                   proc, video_result, raised, fs, request, file_paths_list, response>>

\* lines 441-454: the combine step raised; clean up and answer 400
CombineFailed ==
    /\ hpc = "in_core"
    /\ UNCHANGED concvars
    /\ pc = "raised"
    /\ fs' = rmtree(fs, temp_dir)
    /\ response' = Respond(400, "Failed to combine videos")
    /\ hpc' = "done"
    /\ UNCHANGED <<corevars, request, file_paths_list>>

\* line 471: the output is there to be copied
HasOutput(result, files) ==
    /\ result.success
    /\ result.output_path # None
    /\ result.output_path[1] \in DOMAIN files

\* lines 456-486: copy the output under /tmp, clean up and answer 200
Finish ==
    /\ hpc = "in_core"
    /\ UNCHANGED concvars
    /\ pc = "returned"
    /\ IF HasOutput(video_result, fs)
       THEN LET tmp_output_path == join(<<"tmp">>, video_result.output_file[1])
            IN  /\ fs' = rmtree(WriteFile(fs, tmp_output_path,
                                          fs[video_result.output_path[1]]),
                                temp_dir)
                /\ response' =
                      [code |-> 200,
                       message |->
                          "Video combination request processed successfully",
                       tmp_output_path |-> Some(tmp_output_path)]
       ELSE /\ fs' = rmtree(fs, temp_dir)
            /\ response' =
                  Respond(200,
                      "Video combination request processed successfully")
    /\ hpc' = "done"
    /\ UNCHANGED <<corevars, request, file_paths_list>>

\* an HTTP request arrives at /api/combine_videos
HandlerInit ==
    /\ hpc = "validate"
    /\ request \in Requests
    /\ file_paths_list = <<>>
    /\ response = NoResponse
    /\ reqs = <<>>
    /\ now = 0
    /\ written = NoWriters
    /\ fs = NoFiles
    /\ pc = "idle"
    /\ vclip_timeline = <<>>
    /\ downloaded_videos = <<>>
    /\ downloaded_audio_file = None
    /\ temp_dir = <<>>
    /\ CoreStart

HandlerNext ==
    \/ Validate
    \/ MakeTempDir
    \/ DownloadVideos
    \/ DownloadAudio
    \/ CallCombine
    \/ CoreNext
    \/ CombineFailed
    \/ Finish

HandlerSpec == HandlerInit /\ [][HandlerNext]_vars

-----------------------------------------------------------------------------
(* Two combine_videos requests served concurrently, lines 321-494.  Each     *)
(* request has the handler's locals of its own; the filesystem and the      *)
(* clock are the process's.  combine_videos_with_ffmpeg is one step here:   *)
(* it names its output after the clock (line 137), writes it under the      *)
(* request's working directory (line 274) and returns or raises.            *)

Requesters == {1, 2}

\* the names tempfile.mkdtemp may hand out
WorkDirs == { <<"tmp", "media_processing_1">>, <<"tmp", "media_processing_2">> }

\* 'combined_video_%Y%m%d_%H%M%S.mp4' at each second of the clock (line 137)
ClockNames == << "combined_video_20260101_000000.mp4",
                 "combined_video_20260101_000001.mp4" >>

OutputNameAt(second) == ClockNames[second]

\* the timelines of the concurrent requests, all valid
ConcurrentTimelines ==
    { << Clip(<<"a", "x.mp4">>, <<0, 3>>) >>,
      << Clip(<<"a", "x.mp4">>, <<0, 3>>), Clip(<<"a", "y.mp4">>, <<2, 2>>) >> }

\* the handler's locals once the request has passed lines 335-376
Validated(timeline, paths, audio) ==
    [hpc |-> "mkdtemp", vclip_timeline |-> timeline,
     file_paths_list |-> paths, demo_track_gcs_path |-> audio,
     temp_dir |-> <<>>, downloaded_videos |-> <<>>,
     downloaded_audio_file |-> None, raised |-> FALSE,
     video_result |-> NoResult, response |-> NoResponse]

\* the ghost record of who wrote what
Mark(writers, paths, r) ==
    [p \in DOMAIN writers \cup paths |->
        IF p \in paths
        THEN (IF p \in DOMAIN writers THEN writers[p] ELSE {}) \cup {r}
        ELSE writers[p]]

\* the paths a download wrote: the local files of the paths it got through
Staged(files) == { files[k] : k \in 1..Len(files) }

\* two validated requests are in the handler at the same second
ConcurrentInit ==
    /\ reqs \in [Requesters ->
                   { Validated(tl, paths, a) :
                       tl \in ConcurrentTimelines,
                       paths \in UNION { ListsOf(FilePaths(t)) :
                                           t \in ConcurrentTimelines },
                       a \in {None} \cup { Some(q) : q \in AudioPaths } }]
    /\ \A r \in Requesters :
          reqs[r].file_paths_list \in ListsOf(FilePaths(reqs[r].vclip_timeline))
    /\ now = 1
    /\ written = NoWriters
    /\ fs = NoFiles
    /\ hpc = "concurrent"
    /\ request = NoRequest
    /\ file_paths_list = <<>>
    /\ response = NoResponse
    /\ pc = "idle"
    /\ vclip_timeline = <<>>
    /\ downloaded_videos = <<>>
    /\ downloaded_audio_file = None
    /\ temp_dir = <<>>
    /\ CoreStart

\* the clock moves on
Tick ==
    /\ now < Len(ClockNames)
    /\ now' = now + 1
    /\ UNCHANGED <<corevars, fs, handlervars, reqs, written>>

\* lines 378-388 for request r: mkdtemp returns a directory it has created
\* under a name not used before
CMakeTempDir(r) ==
    /\ reqs[r].hpc = "mkdtemp"
    /\ \E dir \in WorkDirs, bucket_name \in BucketNames :
          /\ dir \notin DOMAIN written
          /\ fs' = mkdtemp(fs, dir)
          /\ written' = Mark(written, {dir}, r)
          /\ reqs' = [reqs EXCEPT
                ![r].temp_dir = dir,
                ![r].hpc = IF bucket_name = None THEN "done"
                           ELSE "download_videos",
                ![r].response =
                    IF bucket_name = None
                    THEN Respond(500,
                             "GCS_BUCKET environment variable not set")
                    ELSE @]
    /\ UNCHANGED <<corevars, handlervars, now>>

\* lines 390-403 for request r
CDownloadVideos(r) ==
    /\ reqs[r].hpc = "download_videos"
    /\ \E blobs \in Buckets :
       LET got == download_files_from_gcs(blobs, reqs[r].file_paths_list,
                                          reqs[r].temp_dir, fs, <<>>)
       IN  /\ fs' = got.files
           /\ written' = Mark(written, Staged(got.downloaded_files), r)
           /\ reqs' = [reqs EXCEPT
                 ![r].downloaded_videos =
                     IF got.ok THEN got.downloaded_files ELSE @,
                 ![r].hpc = IF got.ok THEN "download_audio" ELSE "done",
                 ![r].response =
                     IF got.ok THEN @
                     ELSE Respond(500,
                              "Failed to download video files from GCS")]
    /\ UNCHANGED <<corevars, handlervars, now>>

\* lines 405-422 for request r
CDownloadAudio(r) ==
    /\ reqs[r].hpc = "download_audio"
    /\ IF reqs[r].demo_track_gcs_path # None
       THEN \E blobs \in Buckets :
            LET got == download_files_from_gcs(
                           blobs, <<reqs[r].demo_track_gcs_path[1]>>,
                           reqs[r].temp_dir, fs, <<>>)
            IN  /\ fs' = got.files
                /\ written' = Mark(written, Staged(got.downloaded_files), r)
                /\ reqs' = [reqs EXCEPT
                      ![r].downloaded_audio_file =
                          IF got.ok THEN Some(got.downloaded_files[1]) ELSE @,
                      ![r].hpc = IF got.ok THEN "call" ELSE "done",
                      ![r].response =
                          IF got.ok THEN @
                          ELSE Respond(500,
                                   "Failed to download audio file from GCS")]
       ELSE /\ reqs' = [reqs EXCEPT ![r].hpc = "call"]
            /\ UNCHANGED <<fs, written>>
    /\ UNCHANGED <<corevars, handlervars, now>>

\* lines 433-440 for request r: combine_videos_with_ffmpeg raises, or runs the
\* engine on combined_video_<now>.mp4 in the request's directory and returns
CCombine(r) ==
    /\ reqs[r].hpc = "call"
    /\ \/ /\ reqs' = [reqs EXCEPT ![r].raised = TRUE, ![r].hpc = "combined"]
          /\ UNCHANGED <<fs, written>>
       \/ \E out \in EngineOutcomes :
             LET name == OutputNameAt(now)
                 path == join(reqs[r].temp_dir, name)
                 files == IF out.wrote THEN WriteFile(fs, path, out.size)
                          ELSE fs
             IN  /\ fs' = files
                 /\ written' = IF out.wrote THEN Mark(written, {path}, r)
                               ELSE written
                 /\ reqs' = [reqs EXCEPT
                       ![r].video_result =
                           MakeResult(VideoCreated(out.returncode), name, path,
                                      OutputFileSize(out.returncode, files,
                                                     path),
                                      TotalDuration(reqs[r].vclip_timeline),
                                      out.stderr),
                       ![r].hpc = "combined"]
    /\ UNCHANGED <<corevars, handlervars, now>>

\* lines 441-454 for request r
CCombineFailed(r) ==
    /\ reqs[r].hpc = "combined"
    /\ reqs[r].raised
    /\ fs' = rmtree(fs, reqs[r].temp_dir)
    /\ reqs' = [reqs EXCEPT
          ![r].response = Respond(400, "Failed to combine videos"),
          ![r].hpc = "done"]
    /\ UNCHANGED <<corevars, handlervars, now, written>>

\* lines 456-486 for request r
CFinish(r) ==
    /\ reqs[r].hpc = "combined"
    /\ ~reqs[r].raised
    /\ IF HasOutput(reqs[r].video_result, fs)
       THEN LET tmp_output_path ==
                    join(<<"tmp">>, reqs[r].video_result.output_file[1])
            IN  /\ fs' = rmtree(
                          WriteFile(fs, tmp_output_path,
                                    fs[reqs[r].video_result.output_path[1]]),
                          reqs[r].temp_dir)
                /\ written' = Mark(written, {tmp_output_path}, r)
                /\ reqs' = [reqs EXCEPT
                      ![r].response =
                          [code |-> 200,
                           message |->
                             "Video combination request processed successfully",
                           tmp_output_path |-> Some(tmp_output_path)],
                      ![r].hpc = "done"]
       ELSE /\ fs' = rmtree(fs, reqs[r].temp_dir)
            /\ reqs' = [reqs EXCEPT
                  ![r].response =
                      Respond(200,
                          "Video combination request processed successfully"),
                  ![r].hpc = "done"]
            /\ UNCHANGED written
    /\ UNCHANGED <<corevars, handlervars, now>>

ConcurrentNext ==
    \/ Tick
    \/ \E r \in Requesters :
          \/ CMakeTempDir(r)
          \/ CDownloadVideos(r)
          \/ CDownloadAudio(r)
          \/ CCombine(r)
          \/ CCombineFailed(r)
          \/ CFinish(r)

ConcurrentSpec == ConcurrentInit /\ [][ConcurrentNext]_vars

-----------------------------------------------------------------------------
(* Properties *)

\* the invocation is complete: all inputs, the graph and the mappings are in it
Compiled == pc \in {"execute", "returned"}

\* the first pass has ended without an exception
ProbingDone ==
    \/ pc \in {"inputs", "filters", "audio", "graph", "execute", "returned"}
    \/ pc = "first_pass" /\ clip_i > Len(vclip_timeline)

\* the positions of the '-i' options in an argument list
InputPositions(cmd) ==
    { i \in 1..Len(cmd) : cmd[i].kind = "lit" /\ cmd[i].val = "-i" }

\* the number of video inputs: every '-i' but the audio one
NumVideoInputs ==
    Cardinality(InputPositions(ffmpeg_cmd))
        - (IF downloaded_audio_file # None THEN 1 ELSE 0)

\* the filter graph handed to -filter_complex
GraphOf(cmd) ==
    cmd[CHOOSE i \in 1..Len(cmd) : cmd[i].kind = "filter"].val

\* the label mapped as the output video
MappedLabelOf(cmd) ==
    cmd[CHOOSE i \in 1..Len(cmd) : cmd[i].kind = "label"].val

OverlayNodes(graph) == SelectSeq(graph, LAMBDA n : n.op = "overlay")

ChainNodes(graph) == SelectSeq(graph, LAMBDA n : n.op = "chain")

\* C1: in a compiled invocation the number of video inputs equals the number
\* of distinct sourceRefs (gcs_path) of the timeline, and two clips with
\* different sourceRefs never read from the same input slot.
C1_OneInputPerSourceRef ==
    Compiled =>
        /\ NumVideoInputs = Cardinality(FilePaths(vclip_timeline))
        /\ \A j, k \in 1..Len(vclip_timeline) :
              vclip_timeline[j].gcs_path # vclip_timeline[k].gcs_path
                  => video_filter_parts[j].src # video_filter_parts[k].src

\* C2: once the probing pass has ended, the canvas is the per-axis maximum of
\* the probed dimensions of the unique sources: no source is wider or taller
\* than the canvas, and each axis of the canvas is attained by some source.
C2_CanvasIsMaximum ==
    ProbingDone =>
        /\ \A k \in 1..Len(probed) :
              /\ probed[k].out.width <= max_width
              /\ probed[k].out.height <= max_height
        /\ probed # <<>> =>
              /\ \E k \in 1..Len(probed) : probed[k].out.width = max_width
              /\ \E k \in 1..Len(probed) : probed[k].out.height = max_height
        /\ probed = <<>> => max_width = 0 /\ max_height = 0

\* two sources were probed and the canvas takes its width from one and its
\* height from the other
C2_Witness ==
    /\ ProbingDone
    /\ Len(probed) = 2
    /\ probed[1].out.width = 640 /\ probed[1].out.height = 720
    /\ probed[2].out.width = 1280 /\ probed[2].out.height = 480
    /\ max_width = 1280 /\ max_height = 720

\* the filter chains have been built
ChainsBuilt == pc \in {"audio", "graph", "execute", "returned"}

\* C3: a unique source is marked needs_scaling exactly when it is narrower or
\* shorter than the canvas (so never when it equals the canvas on both axes),
\* and a clip's chain carries scale+pad, to the canvas size, exactly when the
\* clip's source is marked.
C3_NeedsScaling ==
    ChainsBuilt =>
        /\ \A k \in 1..Len(unique_videos) :
              /\ unique_videos[k].needs_scaling <=>
                    (unique_videos[k].width < max_width
                        \/ unique_videos[k].height < max_height)
              /\ (unique_videos[k].width = max_width
                     /\ unique_videos[k].height = max_height)
                    => ~unique_videos[k].needs_scaling
        /\ \A j \in 1..Len(vclip_timeline) :
              \A k \in 1..Len(unique_videos) :
                 unique_videos[k].filename
                       = basename(vclip_timeline[j].gcs_path)
                    => /\ video_filter_parts[j].scale
                             = unique_videos[k].needs_scaling
                       /\ video_filter_parts[j].scale =>
                             /\ video_filter_parts[j].scale_w = max_width
                             /\ video_filter_parts[j].scale_h = max_height

\* chains are built for a source that matches the canvas and is left alone and
\* for one that is smaller on a single axis and is scaled
C3_Witness ==
    /\ ChainsBuilt
    /\ Len(unique_videos) = 2
    /\ unique_videos[1].width = max_width
    /\ unique_videos[1].height = max_height
    /\ unique_videos[2].width = max_width
    /\ unique_videos[2].height < max_height
    /\ \E j \in 1..Len(video_filter_parts) : video_filter_parts[j].scale
    /\ \E j \in 1..Len(video_filter_parts) : ~video_filter_parts[j].scale

\* C4: a compiled graph of N clips has no overlay node and maps [v0] when
\* N = 1; when N >= 2 it has exactly N-1 overlay nodes, node i overlaying
\* [v{i}] on the previous node's output ([v0] for i = 1), and the output of
\* node N-1 is the mapped video.
C4_OverlayChain ==
    Compiled =>
        LET N == Len(vclip_timeline)
            nodes == OverlayNodes(GraphOf(ffmpeg_cmd))
            final == MappedLabelOf(ffmpeg_cmd)
        IN  /\ N = 1 => nodes = <<>> /\ final = <<"v", 0>>
            /\ N >= 2 =>
                  /\ Len(nodes) = N - 1
                  /\ nodes[1].src = ChainNodes(GraphOf(ffmpeg_cmd))[1].out
                  /\ \A i \in 1..(N - 1) :
                        /\ nodes[i].over
                              = ChainNodes(GraphOf(ffmpeg_cmd))[i + 1].out
                        /\ nodes[i].over = <<"v", i>>
                        /\ i >= 2 => nodes[i].src = nodes[i - 1].out
                  /\ \A i, j \in 1..(N - 1) :
                        i # j => nodes[i].out # nodes[j].out
                  /\ final = nodes[N - 1].out

\* a three-clip timeline has been compiled: two overlay nodes, the second fed
\* by the first
C4_Witness ==
    /\ Compiled
    /\ Len(vclip_timeline) = 3
    /\ Len(OverlayNodes(GraphOf(ffmpeg_cmd))) = 2

\* a single-clip timeline has been compiled
C4_WitnessSingle ==
    /\ Compiled
    /\ Len(vclip_timeline) = 1
    /\ MappedLabelOf(ffmpeg_cmd) = <<"v", 0>>

\* C5: the total_duration of the returned result is the maximum over the
\* clips of start_time + duration, with or without an audio track and
\* whether the engine succeeded or failed.
C5_TotalDuration ==
    pc = "returned" =>
        /\ \A k \in 1..Len(vclip_timeline) :
              vclip_timeline[k].start_time + vclip_timeline[k].duration
                  <= video_result.total_duration
        /\ \E k \in 1..Len(vclip_timeline) :
              vclip_timeline[k].start_time + vclip_timeline[k].duration
                  = video_result.total_duration

\* a result was returned for a timeline whose latest end is not its last
\* clip's, with an audio track, after the engine failed
C5_Witness ==
    /\ pc = "returned"
    /\ downloaded_audio_file # None
    /\ ~video_result.success
    /\ Len(vclip_timeline) = 2
    /\ vclip_timeline[1].start_time + vclip_timeline[1].duration = 4
    /\ vclip_timeline[2].start_time + vclip_timeline[2].duration = 3
    /\ video_result.total_duration = 4

\* the clips whose file name matches no staged file
Unresolved ==
    { k \in 1..Len(vclip_timeline) :
        \A j \in 1..Len(downloaded_videos) :
            basename(downloaded_videos[j])
                # basename(vclip_timeline[k].gcs_path) }

FirstUnresolved == CHOOSE k \in Unresolved : \A j \in Unresolved : k <= j

IsResolutionError(e) ==
    e.text = "No downloaded video file found for timeline clip"

IsProbeError(e) == e.text = "Could not determine dimensions for video"

\* nothing beyond the global options is in the argument list, and the engine
\* has not run
NoPlanNoEngine ==
    /\ ffmpeg_cmd = GlobalOptions
    /\ video_filter_parts = <<>>
    /\ engine_runs = <<>>
    /\ ~proc.ran

Started == pc \notin {"idle", "begin"}

\* C6 as stated: whenever a clip has no staged file, the call ends in the
\* resolution error naming a missing reference, with no plan and no engine run.
C6_AlwaysResolutionError ==
    (Started /\ Unresolved # {}) =>
        /\ pc \in {"first_pass", "raised"}
        /\ NoPlanNoEngine
        /\ pc = "raised" =>
              /\ IsResolutionError(raised)
              /\ \E k \in Unresolved :
                    raised.path = vclip_timeline[k].gcs_path

\* C6 as amended: whenever a clip has no staged file, the call never gets past
\* the first pass, builds no plan and never runs the engine; it ends in the
\* resolution error naming the first such clip's reference, unless the probe
\* of an earlier clip's source failed, and then in that probe error.
C6_MissingSourceStops ==
    (Started /\ Unresolved # {}) =>
        /\ pc \in {"first_pass", "raised"}
        /\ NoPlanNoEngine
        /\ clip_i <= FirstUnresolved
        /\ pc = "raised" =>
              \/ /\ IsResolutionError(raised)
                 /\ clip_i = FirstUnresolved
                 /\ raised.path = vclip_timeline[FirstUnresolved].gcs_path
                 /\ raised.name
                       = basename(vclip_timeline[FirstUnresolved].gcs_path)
              \/ /\ IsProbeError(raised)
                 /\ clip_i < FirstUnresolved

\* the resolution error was raised for a later clip after an earlier clip had
\* been resolved and probed
C6_Witness ==
    /\ pc = "raised"
    /\ IsResolutionError(raised)
    /\ clip_i = 2
    /\ Len(probed) = 1
    /\ raised.path = <<"a", "y.mp4">>

\* C7: when the engine exits with status 0 and the output file does not
\* exist, the result is a failure of size 0.
C7_MissingOutputIsFailure ==
    (pc = "returned" /\ proc.returncode = 0 /\ output_path \notin DOMAIN fs)
        => /\ ~video_result.success
           /\ video_result.output_size = 0

\* C8: when the engine exits with a nonzero status, the result is a failure
\* of size 0 that names no output file and no output path and carries the
\* engine's stderr text unchanged.
C8_EngineFailure ==
    (pc = "returned" /\ proc.returncode # 0) =>
        /\ ~video_result.success
        /\ video_result.output_size = 0
        /\ video_result.output_file = None
        /\ video_result.output_path = None
        /\ video_result.ffmpeg_error = Some(proc.stderr)

\* the engine failed after leaving a partial file at the output path
C8_Witness ==
    /\ pc = "returned"
    /\ proc.returncode = 1
    /\ proc.stderr = "Conversion failed!"
    /\ output_path \in DOMAIN fs
    /\ fs[output_path] > 0

\* ffprobe's outcome yields no usable width or height
BadProbe(out) ==
    \/ out.exc
    \/ out.returncode # 0
    \/ out.nstreams = 0
    \/ ~out.has_width \/ out.width = 0
    \/ ~out.has_height \/ out.height = 0

\* C9: when the probe of a source yields a zero or missing width or height,
\* the call ends at once in the probe error carrying that source's path, with
\* no plan compiled and no engine run.
C9_ProbeFailureStops ==
    \A k \in 1..Len(probed) :
        BadProbe(probed[k].out) =>
            /\ k = Len(probed)
            /\ pc = "raised"
            /\ IsProbeError(raised)
            /\ raised.path = probed[k].path
            /\ NoPlanNoEngine

\* the second source's stream carried a height and no width, after the first
\* source had probed well
C9_Witness ==
    /\ Len(probed) = 2
    /\ ~BadProbe(probed[1].out)
    /\ probed[2].out.nstreams = 1
    /\ ~probed[2].out.has_width
    /\ probed[2].out.has_height
    /\ pc = "raised"

\* the timeline is not a list, is empty, or has an entry whose gcs_path is
\* missing or empty
BadTimeline(req) ==
    /\ req.is_json
    /\ req.has_timeline
    /\ \/ ~req.is_list
       \/ req.vclip_timeline = <<>>
       \/ \E k \in 1..Len(req.vclip_timeline) :
             \/ ~req.vclip_timeline[k].has_gcs_path
             \/ req.vclip_timeline[k].gcs_path = <<>>

\* C10: a request whose timeline is not a list, is empty or has an entry with
\* a missing or empty gcs_path is answered 400 with no working directory
\* created, no file staged, no source probed and no engine run.
C10_BoundaryRejection ==
    BadTimeline(request) =>
        /\ hpc \in {"validate", "done"}
        /\ hpc = "done" => response.code = 400
        /\ fs = NoFiles
        /\ temp_dir = <<>>
        /\ downloaded_videos = <<>>
        /\ pc = "idle"
        /\ probed = <<>>
        /\ engine_runs = <<>>

\* a request whose first clip is valid and whose second has an empty gcs_path
\* has been rejected
C10_Witness ==
    /\ hpc = "done"
    /\ response.code = 400
    /\ request.is_list
    /\ Len(request.vclip_timeline) = 2
    /\ request.vclip_timeline[1].gcs_path = <<"a", "x.mp4">>
    /\ request.vclip_timeline[2].has_gcs_path
    /\ request.vclip_timeline[2].gcs_path = <<>>

\* C11: a call with a timeline of zero clips ends in the exception "No valid
\* video clips found", and in no other, without the engine having run.
C11_NoValidClipsError ==
    (vclip_timeline = <<>> /\ pc = "raised") =>
        /\ raised = NoClipsError
        /\ engine_runs = <<>>

\* C16: when the handler has answered, the working directory it created and
\* everything under it are gone, whichever way the request ended.
C16_TempDirRemoved ==
    hpc = "done" =>
        \A p \in DOMAIN fs : ~IsPrefix(WorkDir, p)

\* the moves between positions of combine_videos_with_ffmpeg that follow the
\* stage order: resolve and probe (first_pass), normalize (first_pass to
\* inputs), compile (inputs, filters, audio, graph), execute, report
\* (returned), and from a stage to the terminal failure (raised)
StageMoves ==
    { <<"begin", "first_pass">>, <<"first_pass", "raised">>,
      <<"first_pass", "inputs">>, <<"inputs", "filters">>,
      <<"filters", "audio">>, <<"audio", "graph">>, <<"audio", "raised">>,
      <<"graph", "execute">>, <<"graph", "raised">>,
      <<"execute", "returned">> }

\* one step of the call keeps the stage order: it moves forward or to the
\* terminal failure, never out of a terminal state and never back; the
\* canvas is normalized only after the first pass covered the whole timeline;
\* a probe belongs to the clip the first pass is resolving; the engine runs in
\* the execute stage only, once, and never on the way to a failure
StageStep ==
    /\ pc \notin {"raised", "returned"}
    /\ \/ <<pc, pc'>> \in StageMoves
       \/ pc = "first_pass" /\ pc' = "first_pass" /\ clip_i' = clip_i + 1
    /\ pc' = "inputs" => clip_i > Len(vclip_timeline)
    /\ probed' # probed =>
          /\ pc = "first_pass"
          /\ Len(probed') = Len(probed) + 1
          /\ basename(probed'[Len(probed')].path)
                = basename(vclip_timeline[clip_i].gcs_path)
    /\ engine_runs' # engine_runs =>
          /\ pc = "execute" /\ pc' = "returned"
          /\ engine_runs = <<>>
          /\ Len(engine_runs') = 1
    /\ pc' = "raised" => engine_runs' = <<>>

\* C12 as stated: the stages run in order, each after the previous one has
\* completed for the whole timeline, so that a source is probed only when every
\* clip has been resolved; failures are terminal, nothing is retried and the
\* engine runs at most once.
C12_StagesInOrder ==
    [][ /\ StageStep
        /\ probed' # probed => clip_i >= Len(vclip_timeline) ]_vars

\* C12 as amended: the same, except that resolving and probing are one pass
\* over the clips: a clip is resolved and, when its file name is new, probed
\* before the next clip is resolved.
C12_StagesInterleaved == [][StageStep]_vars

\* a three-clip call went through every stage: two sources probed, the engine
\* run once, the result returned
C12_Witness ==
    /\ pc = "returned"
    /\ Len(vclip_timeline) = 3
    /\ Len(probed) = 2
    /\ Len(engine_runs) = 1

\* the elements of a set of numbers in increasing order
Sorted(S) ==
    [i \in 1..Cardinality(S) |->
        CHOOSE x \in S : Cardinality({ y \in S : y < x }) = i - 1]

\* the path given to the video input with index i (from 0), the '-i' options
\* being at the given positions
VideoInputPath(cmd, positions, i) == cmd[positions[i + 1] + 1].val

\* C13: a compiled graph has one chain per clip, in timeline order: chain k
\* is labelled v{k}, reads from an existing video input, the one that holds
\* the clip's file, trims to the clip's duration, carries scale+pad exactly
\* when that source is smaller than the canvas, and shifts by the clip's
\* start_time; clips with the same sourceRef read from the same input.
C13_ChainPerClip ==
    Compiled =>
        LET graph == GraphOf(ffmpeg_cmd)
            chains == ChainNodes(graph)
            positions == Sorted(InputPositions(ffmpeg_cmd))
        IN  /\ Len(chains) = Len(vclip_timeline)
            /\ \A k \in 1..Len(vclip_timeline) :
                  /\ graph[k] = chains[k]
                  /\ chains[k].out = <<"v", k - 1>>
                  /\ chains[k].src[1] = "in"
                  /\ chains[k].src[2] \in 0..(NumVideoInputs - 1)
                  /\ basename(VideoInputPath(ffmpeg_cmd, positions,
                                              chains[k].src[2]))
                        = basename(vclip_timeline[k].gcs_path)
                  /\ chains[k].trim = vclip_timeline[k].duration
                  /\ chains[k].setpts = vclip_timeline[k].start_time
                  /\ \A u \in 1..Len(unique_videos) :
                        unique_videos[u].filename
                              = basename(vclip_timeline[k].gcs_path)
                           => chains[k].scale
                                 = (unique_videos[u].width < max_width
                                      \/ unique_videos[u].height < max_height)
            /\ \A j, k \in 1..Len(vclip_timeline) :
                  vclip_timeline[j].gcs_path = vclip_timeline[k].gcs_path
                      => chains[j].src = chains[k].src

\* two clips of one source with different timings and a third clip of another
\* source have been compiled: two chains on one input, one on the other
C13_Witness ==
    /\ Compiled
    /\ Len(vclip_timeline) = 3
    /\ vclip_timeline[1].gcs_path = vclip_timeline[2].gcs_path
    /\ vclip_timeline[1].start_time # vclip_timeline[2].start_time
    /\ vclip_timeline[1].duration # vclip_timeline[2].duration
    /\ video_filter_parts[1].src = video_filter_parts[2].src
    /\ video_filter_parts[1] # video_filter_parts[2]
    /\ video_filter_parts[3].src # video_filter_parts[1].src
    /\ NumVideoInputs = 2

IsLit(tok, str) == tok.kind = "lit" /\ tok.val = str

\* the clips that are the first of the timeline with their key
FirstSeen(keys) ==
    Sorted({ k \in 1..Len(keys) : \A j \in 1..(k - 1) : keys[j] # keys[k] })

\* the sourceRefs of the timeline
SourceRefs == [k \in 1..Len(vclip_timeline) |-> vclip_timeline[k].gcs_path]

\* the file names of the timeline
FileNames ==
    [k \in 1..Len(vclip_timeline) |-> basename(vclip_timeline[k].gcs_path)]

\* the argument list is: the global options, one input per clip of `firsts`
\* in that order, the audio input when there is an audio file, the filter
\* graph, the video mapping, the audio mapping (of the input after the video
\* inputs) when there is an audio file, the encoding options, the output path
InvocationOrdered(firsts) ==
    LET cmd == ffmpeg_cmd
        base == Len(GlobalOptions)
        n == Len(firsts)
        a == IF downloaded_audio_file # None THEN 1 ELSE 0
        f == base + 2 * n + 2 * a
        e == f + 4 + 4 * a
    IN  /\ Len(cmd) = e + 14
        /\ \A i \in 1..base :
              cmd[i].kind = "lit" /\ cmd[i].val = GlobalOptions[i].val
        /\ \A i \in 1..n :
              /\ IsLit(cmd[base + 2 * i - 1], "-i")
              /\ cmd[base + 2 * i].kind = "path"
              /\ basename(cmd[base + 2 * i].val)
                    = basename(vclip_timeline[firsts[i]].gcs_path)
        /\ a = 1 =>
              /\ IsLit(cmd[base + 2 * n + 1], "-i")
              /\ cmd[base + 2 * n + 2].kind = "path"
              /\ cmd[base + 2 * n + 2].val = downloaded_audio_file[1]
        /\ IsLit(cmd[f + 1], "-filter_complex")
        /\ cmd[f + 2].kind = "filter"
        /\ IsLit(cmd[f + 3], "-map")
        /\ cmd[f + 4].kind = "label"
        /\ a = 1 =>
              /\ IsLit(cmd[f + 5], "-map")
              /\ cmd[f + 6].kind = "stream"
              /\ cmd[f + 6].val = n
              /\ IsLit(cmd[f + 7], "-t")
              /\ cmd[f + 8].kind = "num"
        /\ IsLit(cmd[e + 1], "-c:v")
        /\ \A i \in (e + 1)..(e + 13) :
              cmd[i].kind = "lit" /\ cmd[i].val \notin {"-i", "-map"}
        /\ IsLit(cmd[e + 13], "-shortest")
        /\ cmd[e + 14].kind = "path"
        /\ cmd[e + 14].val = output_path

\* C14: a compiled invocation is ordered as the global options, the inputs of
\* the distinct sourceRefs in first-seen order, the audio input exactly when an
\* audio file is present (its index the number of video inputs), the filter
\* graph, the video mapping, the audio mapping only with audio, the encoding
\* options and last the destination path.
C14_InvocationOrder == Compiled => InvocationOrdered(FirstSeen(SourceRefs))

\* the same order with the inputs taken per distinct file name
InvocationOrderByFileName ==
    Compiled => InvocationOrdered(FirstSeen(FileNames))

\* C15: two concurrent requests work in different directories and no path
\* written by one of them (a staged input, the engine's output, the copy of
\* the output under /tmp) is written by the other.
C15_NoSharedPaths ==
    /\ \A p \in DOMAIN written : Cardinality(written[p]) <= 1
    /\ \A r, q \in DOMAIN reqs :
          (r # q /\ reqs[r].temp_dir # <<>>)
              => reqs[r].temp_dir # reqs[q].temp_dir

\* the part of C15 that holds: the working directories differ and no path
\* under a working directory is written by both requests
OwnWorkingDirectories ==
    /\ \A p \in DOMAIN written :
          (\E dir \in WorkDirs : IsPrefix(dir, p))
              => Cardinality(written[p]) <= 1
    /\ \A r, q \in DOMAIN reqs :
          (r # q /\ reqs[r].temp_dir # <<>>)
              => reqs[r].temp_dir # reqs[q].temp_dir

=============================================================================
